---- MODULE Spec2Model ----
(***************************************************************************)
(* Model of the useUniversalTransaction hook (src/transaction.ts).         *)
(*                                                                         *)
(* The hook is a React function component hook: its state is six useState  *)
(* cells, two write handles (useWriteContract) and two receipt queries     *)
(* (useWaitForTransactionReceipt).  A step of the model is either an event *)
(* that commits a new render (execute(), reset(), a write request or a     *)
(* receipt query settling, the caller re-rendering with new props) or the  *)
(* run of the passive effects of the committed render (FlushEffects).      *)
(* Effects read the values of the render they belong to and run only when  *)
(* one of their dependencies differs from the previous render.             *)
(*                                                                         *)
(* The external collaborator is modelled by its contract: a submitted      *)
(* write is a request that later returns a hash or an error, once; a       *)
(* receipt query on a hash later succeeds or fails, once.  reset() on a    *)
(* write handle detaches the handle from its request: the request is still *)
(* outstanding at the wallet but its result no longer reaches the hook.    *)
(***************************************************************************)
EXTENDS Integers, Sequences, FiniteSets, TLC

\* Number of write requests a behaviour may submit (request ids 1..MaxWrites).
MaxWrites == 3

\* The per-run count of an event (a callback or a write) is kept up to MaxCount.
MaxCount == 2

EventNames == {"writeApproval", "writeTransaction", "onApprovalSuccess",
               "onTransactionSuccess", "onApprovalError", "onTransactionError",
               "onFinalSuccess"}

NoCalls == [e \in EventNames |-> 0]

Ids == 1..MaxWrites

\* Error | null.  kind "none" is null.
NoError == [kind |-> "none", id |-> 0]

WriteError(id) == [kind |-> "write", id |-> id]

ConfirmError(hash) == [kind |-> "confirm", id |-> hash]

PrepareError == [kind |-> "prepare", id |-> 0]

\* An optional parameter is given or omitted (undefined); v of an omitted
\* parameter is never read.
Given(v) == [given |-> TRUE, v |-> v]

Omitted(v) == [given |-> FALSE, v |-> v]

OrDefault(param, default) == IF param.given THEN param.v ELSE default

\* approvalConfig?: ApprovalConfig.  amount is a bigint or a string; decimals
\* is optional.
NoConfig ==
  [provided |-> FALSE, isString |-> FALSE, amount |-> << >>,
   decimals |-> Omitted(0)]

BigintConfig ==
  [provided |-> TRUE, isString |-> FALSE, amount |-> <<"5">>,
   decimals |-> Omitted(0)]

StringConfig ==
  [provided |-> TRUE, isString |-> TRUE, amount |-> <<"1", ".", "5">>,
   decimals |-> Given(6)]

BadStringConfig ==
  [provided |-> TRUE, isString |-> TRUE, amount |-> <<"1", "x">>,
   decimals |-> Omitted(0)]

BadStringDecimalsConfig ==
  [provided |-> TRUE, isString |-> TRUE, amount |-> <<"1", ".", "5", ".">>,
   decimals |-> Given(6)]

Configs ==
  {NoConfig, BigintConfig, StringConfig, BadStringConfig,
   BadStringDecimalsConfig}

\* decimals = 18
DefaultDecimals == 18

Digits == {"0", "1", "2", "3", "4", "5", "6", "7", "8", "9"}

\* A string amount converts iff it is -?digits*.?digits*
MatchesDecimal(s) ==
  LET body == IF Len(s) > 0 /\ s[1] = "-" THEN Tail(s) ELSE s
  IN \E k \in 0..Len(body) :
        /\ \A i \in 1..k : body[i] \in Digits
        /\ \/ k = Len(body)
           \/ /\ body[k + 1] = "."
              /\ \A i \in (k + 2)..Len(body) : body[i] \in Digits

\* parseUnits(value, decimals) throws iff value is not a decimal numeral; the
\* test does not read decimals, which only scale the converted value.
ParseUnitsThrows(value, decimals) == ~MatchesDecimal(value)

\* typeof amount === 'string' ? parseUnits(amount, decimals) : amount  throws
PrepareThrows(cfg) ==
  /\ cfg.isString
  /\ ParseUnitsThrows(cfg.amount, OrDefault(cfg.decimals, DefaultDecimals))

----------------------------------------------------------------------------
\* useUniversalReadContract (src/read.ts).

DEFAULT_CONTRACT_ADDRESS == "DEFAULT_CONTRACT_ADDRESS"

DEFAULT_CONTRACT_ABI == "DEFAULT_CONTRACT_ABI"

ReadParams ==
  [functionName : {"balanceOf", "getUserDashboard"},
   args : {Omitted(<< >>), Given(<< >>), Given(<<"0xUser">>)},
   address : {Omitted(""), Given("0xToken")},
   abi : {Omitted(""), Given("tokenAbi")},
   enabled : {Omitted(FALSE), Given(TRUE), Given(FALSE)},
   watch : {Omitted(FALSE), Given(TRUE), Given(FALSE)},
   chainId : {Omitted(0), Given(56)}]

\* What useReadContract may return (data 0 is undefined).
ReadResults ==
  {[data |-> 0, isLoading |-> TRUE, isError |-> FALSE, error |-> NoError,
    refetch |-> "refetch", isSuccess |-> FALSE, isFetching |-> TRUE,
    status |-> "pending"],
   [data |-> 7, isLoading |-> FALSE, isError |-> FALSE, error |-> NoError,
    refetch |-> "refetch", isSuccess |-> TRUE, isFetching |-> FALSE,
    status |-> "success"],
   [data |-> 7, isLoading |-> FALSE, isError |-> FALSE, error |-> NoError,
    refetch |-> "refetch", isSuccess |-> TRUE, isFetching |-> TRUE,
    status |-> "success"],
   [data |-> 0, isLoading |-> FALSE, isError |-> TRUE,
    error |-> [kind |-> "read", id |-> 0],
    refetch |-> "refetch", isSuccess |-> FALSE, isFetching |-> FALSE,
    status |-> "error"]}

ReadRequestWatching(p) ==
  [address |-> OrDefault(p.address, DEFAULT_CONTRACT_ADDRESS),
   abi |-> OrDefault(p.abi, DEFAULT_CONTRACT_ABI),
   functionName |-> p.functionName,
   args |-> OrDefault(p.args, << >>),
   query |-> [enabled |-> OrDefault(p.enabled, TRUE)],
   watch |-> OrDefault(p.watch, TRUE),
   chainId |-> p.chainId]

\* The argument of useReadContract: the destructured parameters with their
\* defaults.
ReadRequest(p) ==
  [address |-> OrDefault(p.address, DEFAULT_CONTRACT_ADDRESS),
   abi |-> OrDefault(p.abi, DEFAULT_CONTRACT_ABI),
   functionName |-> p.functionName,
   args |-> OrDefault(p.args, << >>),
   query |-> [enabled |-> OrDefault(p.enabled, TRUE)],
   watch |-> OrDefault(p.watch, FALSE),
   chainId |-> p.chainId]

\* The object the read hook returns.
ReadReturn(res) ==
  [data |-> res.data, isLoading |-> res.isLoading, isError |-> res.isError,
   error |-> res.error, refetch |-> res.refetch, isSuccess |-> res.isSuccess,
   isFetching |-> res.isFetching]

NotRendered == [rendered |-> FALSE]

VARIABLES
  approvalHash, transactionHash, isApproving, isTransacting,
  approvalError, transactionError,
  approvalReq, approvalData, approvalWriteError,
  transactionReq, transactionData, transactionWriteError,
  inflight, nextId, receipt,
  approvalConfig, cbId,
  prev, effectsPending,
  trace, calls, last, runCfg, runApId, runTxId, failures, afterReset, cfgChanged,
  read

hookVars == <<approvalHash, transactionHash, isApproving, isTransacting,
              approvalError, transactionError,
              approvalReq, approvalData, approvalWriteError,
              transactionReq, transactionData, transactionWriteError>>

envVars == <<inflight, nextId, receipt>>

propVars == <<approvalConfig, cbId>>

ghostVars == <<trace, calls, last, runCfg, runApId, runTxId, failures, afterReset, cfgChanged>>

vars == <<hookVars, envVars, propVars, prev, effectsPending, ghostVars, read>>

----------------------------------------------------------------------------
\* Values the hook derives on every render.

ReceiptOf(rc, hash) == IF hash = 0 THEN "unknown" ELSE rc[hash]

isApprovingConfirming == ReceiptOf(receipt, approvalHash) = "pending"

IsApprovalSuccessAny == ReceiptOf(receipt, approvalHash) \in {"success", "error"}

isApprovalSuccess == ReceiptOf(receipt, approvalHash) = "success"

approvalConfirmError ==
  IF ReceiptOf(receipt, approvalHash) = "error" THEN ConfirmError(approvalHash) ELSE NoError

isTransactionConfirming == ReceiptOf(receipt, transactionHash) = "pending"

isTransactionSuccess == ReceiptOf(receipt, transactionHash) = "success"

transactionConfirmError ==
  IF ReceiptOf(receipt, transactionHash) = "error" THEN ConfirmError(transactionHash) ELSE NoError

isLoading ==
  isApproving \/ isApprovingConfirming \/ isTransacting \/ isTransactionConfirming

IsCompleteBoth == isApprovalSuccess /\ isTransactionSuccess

isComplete ==
  (IF approvalConfig.provided THEN isApprovalSuccess ELSE TRUE) /\ isTransactionSuccess

\* The dependency arrays of the eight effects, as of the current render.
Deps ==
  [approvalData |-> approvalData, transactionData |-> transactionData,
   approvalWriteError |-> approvalWriteError,
   transactionWriteError |-> transactionWriteError,
   approvalConfirmError |-> approvalConfirmError,
   transactionConfirmError |-> transactionConfirmError,
   isApprovalSuccess |-> isApprovalSuccess, approvalHash |-> approvalHash,
   isTransactionSuccess |-> isTransactionSuccess,
   transactionHash |-> transactionHash, cbId |-> cbId]

----------------------------------------------------------------------------
\* The cells a handler or an effect writes, as one record, so that a handler
\* is the composition of its statements.

Cur ==
  [approvalHash |-> approvalHash, transactionHash |-> transactionHash,
   isApproving |-> isApproving, isTransacting |-> isTransacting,
   approvalError |-> approvalError, transactionError |-> transactionError,
   approvalReq |-> approvalReq, approvalData |-> approvalData,
   approvalWriteError |-> approvalWriteError,
   transactionReq |-> transactionReq, transactionData |-> transactionData,
   transactionWriteError |-> transactionWriteError,
   inflight |-> inflight, nextId |-> nextId,
   trace |-> << >>, calls |-> calls, runApId |-> runApId, runTxId |-> runTxId,
   failures |-> failures]

Ev(name, arg) == [ev |-> name, arg |-> arg]

Call(st, name, arg) ==
  [st EXCEPT !.trace = Append(@, Ev(name, arg)),
             !.calls[name] = IF @ < MaxCount THEN @ + 1 ELSE @]

\* useWaitForTransactionReceipt({hash}): rendering with a hash starts its query.
Subscribe(rc, hash) ==
  IF hash # 0 /\ rc[hash] = "unknown" THEN [rc EXCEPT ![hash] = "pending"] ELSE rc

Commit(st) ==
  /\ approvalHash' = st.approvalHash
  /\ transactionHash' = st.transactionHash
  /\ isApproving' = st.isApproving
  /\ isTransacting' = st.isTransacting
  /\ approvalError' = st.approvalError
  /\ transactionError' = st.transactionError
  /\ approvalReq' = st.approvalReq
  /\ approvalData' = st.approvalData
  /\ approvalWriteError' = st.approvalWriteError
  /\ transactionReq' = st.transactionReq
  /\ transactionData' = st.transactionData
  /\ transactionWriteError' = st.transactionWriteError
  /\ inflight' = st.inflight
  /\ nextId' = st.nextId
  /\ receipt' = Subscribe(Subscribe(receipt, st.approvalHash), st.transactionHash)
  /\ trace' = st.trace
  /\ calls' = st.calls
  /\ runApId' = st.runApId
  /\ runTxId' = st.runTxId
  /\ failures' = st.failures

Rendered(st) ==
  <<st.approvalHash, st.transactionHash, st.isApproving, st.isTransacting,
    st.approvalError, st.transactionError, st.approvalReq, st.approvalData,
    st.approvalWriteError, st.transactionReq, st.transactionData,
    st.transactionWriteError>>

----------------------------------------------------------------------------
\* writeApproval(request, {onError}): a new request on the approval handle.
WriteApproval(st) ==
  Call([st EXCEPT !.approvalReq = st.nextId, !.approvalData = 0,
                  !.approvalWriteError = NoError,
                  !.inflight = @ \cup {[id |-> st.nextId, kind |-> "approval"]},
                  !.nextId = @ + 1, !.runApId = st.nextId],
       "writeApproval", st.nextId)

\* writeTransaction(request, {onError}): a new request on the transaction handle.
WriteTransaction(st) ==
  Call([st EXCEPT !.transactionReq = st.nextId, !.transactionData = 0,
                  !.transactionWriteError = NoError,
                  !.inflight = @ \cup {[id |-> st.nextId, kind |-> "transaction"]},
                  !.nextId = @ + 1, !.runTxId = st.nextId],
       "writeTransaction", st.nextId)

\* executeApproval whose catch block does not clear isApproving.
executeApprovalKeepsApproving(st, cfg) ==
  IF ~cfg.provided THEN st
  ELSE LET s1 == [st EXCEPT !.isApproving = TRUE, !.approvalError = NoError]
       IN IF PrepareThrows(cfg)
          THEN Call([s1 EXCEPT !.approvalError = PrepareError,
                               !.failures = @ \cup {"apPrepare"}],
                    "onApprovalError", 0)
          ELSE WriteApproval(s1)

executeApproval(st, cfg) ==
  IF ~cfg.provided THEN st
  ELSE LET s1 == [st EXCEPT !.isApproving = TRUE, !.approvalError = NoError]
       IN IF PrepareThrows(cfg)
          THEN Call([s1 EXCEPT !.approvalError = PrepareError,
                               !.isApproving = FALSE,
                               !.failures = @ \cup {"apPrepare"}],
                    "onApprovalError", 0)
          ELSE WriteApproval(s1)

executeTransaction(st) ==
  WriteTransaction([st EXCEPT !.isTransacting = TRUE, !.transactionError = NoError])

ClearedKeepHandles(st) ==
  [st EXCEPT !.approvalHash = 0, !.transactionHash = 0,
             !.approvalError = NoError, !.transactionError = NoError,
             !.isApproving = FALSE, !.isTransacting = FALSE]

ClearedKeepErrors(st) ==
  [st EXCEPT !.approvalHash = 0, !.transactionHash = 0,
             !.isApproving = FALSE, !.isTransacting = FALSE,
             !.approvalReq = 0, !.approvalData = 0, !.approvalWriteError = NoError,
             !.transactionReq = 0, !.transactionData = 0,
             !.transactionWriteError = NoError]

\* The six setters and the two handle resets that open execute().
Cleared(st) ==
  [st EXCEPT !.approvalHash = 0, !.transactionHash = 0,
             !.approvalError = NoError, !.transactionError = NoError,
             !.isApproving = FALSE, !.isTransacting = FALSE,
             !.approvalReq = 0, !.approvalData = 0, !.approvalWriteError = NoError,
             !.transactionReq = 0, !.transactionData = 0,
             !.transactionWriteError = NoError]

\* Requests the run started by execute() may submit.
Needs(cfg) == IF ~cfg.provided THEN 1 ELSE IF PrepareThrows(cfg) THEN 0 ELSE 2

ExecuteInverted(st, cfg) ==
  LET s0 == [Cleared(st) EXCEPT !.runApId = 0, !.runTxId = 0, !.failures = {},
                                !.calls = NoCalls]
  IN IF ~cfg.provided THEN executeApproval(s0, BigintConfig) ELSE executeTransaction(s0)

execute(st, cfg) ==
  LET s0 == [Cleared(st) EXCEPT !.runApId = 0, !.runTxId = 0, !.failures = {},
                                !.calls = NoCalls]
  IN IF cfg.provided THEN executeApproval(s0, cfg) ELSE executeTransaction(s0)

ResetKeepsTransactionHash(st) ==
  [st EXCEPT !.approvalHash = 0,
             !.isApproving = FALSE, !.isTransacting = FALSE,
             !.approvalError = NoError, !.transactionError = NoError,
             !.approvalReq = 0, !.approvalData = 0, !.approvalWriteError = NoError,
             !.transactionReq = 0, !.transactionData = 0,
             !.transactionWriteError = NoError,
             !.runApId = 0, !.runTxId = 0]

ResetKeepHandles(st) ==
  [st EXCEPT !.approvalHash = 0, !.transactionHash = 0,
             !.approvalError = NoError, !.transactionError = NoError,
             !.isApproving = FALSE, !.isTransacting = FALSE,
             !.runApId = 0, !.runTxId = 0]

reset(st) ==
  [st EXCEPT !.approvalHash = 0, !.transactionHash = 0,
             !.isApproving = FALSE, !.isTransacting = FALSE,
             !.approvalError = NoError, !.transactionError = NoError,
             !.approvalReq = 0, !.approvalData = 0, !.approvalWriteError = NoError,
             !.transactionReq = 0, !.transactionData = 0,
             !.transactionWriteError = NoError,
             !.runApId = 0, !.runTxId = 0]

----------------------------------------------------------------------------
\* The effects, in source order.  Each reads the committed render (the
\* variables) and the dependencies of the previous render (prev), and adds
\* its state updates to st.

ApprovalDataEffectClearsFlag(st) ==
  IF prev.approvalData # approvalData /\ approvalData # 0
  THEN [st EXCEPT !.approvalHash = approvalData, !.isApproving = FALSE]
  ELSE st

ApprovalDataEffectDropped(st) == st

ApprovalDataEffect(st) ==
  IF prev.approvalData # approvalData /\ approvalData # 0
  THEN [st EXCEPT !.approvalHash = approvalData]
  ELSE st

TransactionDataEffect(st) ==
  IF prev.transactionData # transactionData /\ transactionData # 0
  THEN [st EXCEPT !.transactionHash = transactionData]
  ELSE st

ApprovalWriteErrorEffect(st) ==
  IF (prev.approvalWriteError # approvalWriteError \/ prev.cbId # cbId)
     /\ approvalWriteError # NoError
  THEN Call([st EXCEPT !.approvalError = approvalWriteError, !.isApproving = FALSE],
            "onApprovalError", approvalWriteError.id)
  ELSE st

TransactionWriteErrorEffect(st) ==
  IF (prev.transactionWriteError # transactionWriteError \/ prev.cbId # cbId)
     /\ transactionWriteError # NoError
  THEN Call([st EXCEPT !.transactionError = transactionWriteError,
                       !.isTransacting = FALSE],
            "onTransactionError", transactionWriteError.id)
  ELSE st

ApprovalConfirmErrorEffectSetsBoth(st) ==
  IF (prev.approvalConfirmError # approvalConfirmError \/ prev.cbId # cbId)
     /\ approvalConfirmError # NoError
  THEN Call([st EXCEPT !.approvalError = approvalConfirmError, !.isApproving = FALSE,
                       !.transactionError = approvalConfirmError],
            "onApprovalError", approvalConfirmError.id)
  ELSE st

ApprovalConfirmErrorEffectKeepsFlag(st) ==
  IF (prev.approvalConfirmError # approvalConfirmError \/ prev.cbId # cbId)
     /\ approvalConfirmError # NoError
  THEN Call([st EXCEPT !.approvalError = approvalConfirmError],
            "onApprovalError", approvalConfirmError.id)
  ELSE st

ApprovalConfirmErrorEffect(st) ==
  IF (prev.approvalConfirmError # approvalConfirmError \/ prev.cbId # cbId)
     /\ approvalConfirmError # NoError
  THEN Call([st EXCEPT !.approvalError = approvalConfirmError, !.isApproving = FALSE],
            "onApprovalError", approvalConfirmError.id)
  ELSE st

TransactionConfirmErrorEffect(st) ==
  IF (prev.transactionConfirmError # transactionConfirmError \/ prev.cbId # cbId)
     /\ transactionConfirmError # NoError
  THEN Call([st EXCEPT !.transactionError = transactionConfirmError,
                       !.isTransacting = FALSE],
            "onTransactionError", transactionConfirmError.id)
  ELSE st

ApprovalSuccessEffectEveryRender(st) ==
  IF isApprovalSuccess /\ approvalHash # 0 /\ ~isTransacting /\ transactionHash = 0
  THEN executeTransaction(
         Call([st EXCEPT !.isApproving = FALSE], "onApprovalSuccess", approvalHash))
  ELSE st

ApprovalSuccessEffectKeepsApproving(st) ==
  IF (prev.isApprovalSuccess # isApprovalSuccess \/ prev.approvalHash # approvalHash)
     /\ isApprovalSuccess /\ approvalHash # 0 /\ ~isTransacting /\ transactionHash = 0
  THEN executeTransaction(Call(st, "onApprovalSuccess", approvalHash))
  ELSE st

ApprovalSuccessEffectOnHash(st) ==
  IF (prev.isApprovalSuccess # isApprovalSuccess \/ prev.approvalHash # approvalHash)
     /\ approvalHash # 0 /\ ~isTransacting /\ transactionHash = 0
  THEN executeTransaction(
         Call([st EXCEPT !.isApproving = FALSE], "onApprovalSuccess", approvalHash))
  ELSE st

ApprovalSuccessEffect(st) ==
  IF (prev.isApprovalSuccess # isApprovalSuccess \/ prev.approvalHash # approvalHash)
     /\ isApprovalSuccess /\ approvalHash # 0 /\ ~isTransacting /\ transactionHash = 0
  THEN executeTransaction(
         Call([st EXCEPT !.isApproving = FALSE], "onApprovalSuccess", approvalHash))
  ELSE st

TransactionSuccessEffectOnHash(st) ==
  IF (prev.isTransactionSuccess # isTransactionSuccess
      \/ prev.transactionHash # transactionHash)
     /\ transactionHash # 0
  THEN Call(Call([st EXCEPT !.isTransacting = FALSE],
                 "onTransactionSuccess", transactionHash),
            "onFinalSuccess", 0)
  ELSE st

TransactionSuccessEffect(st) ==
  IF (prev.isTransactionSuccess # isTransactionSuccess
      \/ prev.transactionHash # transactionHash)
     /\ isTransactionSuccess /\ transactionHash # 0
  THEN Call(Call([st EXCEPT !.isTransacting = FALSE],
                 "onTransactionSuccess", transactionHash),
            "onFinalSuccess", 0)
  ELSE st

RunEffects(st) ==
  TransactionSuccessEffect(ApprovalSuccessEffect(
    TransactionConfirmErrorEffect(ApprovalConfirmErrorEffect(
      TransactionWriteErrorEffect(ApprovalWriteErrorEffect(
        TransactionDataEffect(ApprovalDataEffect(st))))))))

----------------------------------------------------------------------------
InitDeps ==
  [approvalData |-> 0, transactionData |-> 0,
   approvalWriteError |-> NoError, transactionWriteError |-> NoError,
   approvalConfirmError |-> NoError, transactionConfirmError |-> NoError,
   isApprovalSuccess |-> FALSE, approvalHash |-> 0,
   isTransactionSuccess |-> FALSE, transactionHash |-> 0, cbId |-> 0]

\* The hook after its first render: the useState initial values, idle write
\* handles, no receipt query; the mount effects found every condition false.
Init ==
  /\ approvalHash = 0 /\ transactionHash = 0
  /\ isApproving = FALSE /\ isTransacting = FALSE
  /\ approvalError = NoError /\ transactionError = NoError
  /\ approvalReq = 0 /\ approvalData = 0 /\ approvalWriteError = NoError
  /\ transactionReq = 0 /\ transactionData = 0 /\ transactionWriteError = NoError
  /\ inflight = {} /\ nextId = 1
  /\ receipt = [h \in Ids |-> "unknown"]
  /\ approvalConfig \in Configs /\ cbId = 0
  /\ prev = InitDeps /\ effectsPending = FALSE
  /\ trace = << >> /\ calls = NoCalls /\ last = "mount" /\ runCfg = "norun"
  /\ runApId = 0 /\ runTxId = 0 /\ failures = {}
  /\ afterReset = FALSE /\ cfgChanged = FALSE
  /\ read = NotRendered

\* The caller invokes execute() of the last committed render.
Execute ==
  /\ ~effectsPending
  /\ nextId + Needs(approvalConfig) - 1 <= MaxWrites
  /\ Commit(execute(Cur, approvalConfig))
  /\ effectsPending' = TRUE
  /\ last' = "execute" /\ UNCHANGED read
  /\ runCfg' = IF approvalConfig.provided THEN "with" ELSE "none"
  /\ afterReset' = FALSE /\ cfgChanged' = FALSE
  /\ UNCHANGED <<propVars, prev>>

\* The caller invokes reset().
Reset ==
  /\ ~effectsPending
  /\ Commit(reset(Cur))
  /\ effectsPending' = TRUE
  /\ last' = "reset" /\ UNCHANGED read
  /\ afterReset' = TRUE
  /\ UNCHANGED <<propVars, prev, runCfg, cfgChanged>>

\* The request the approval handle is attached to returns its hash.
ApprovalWriteReturns ==
  /\ ~effectsPending
  /\ \E r \in inflight :
       /\ r.kind = "approval" /\ r.id = approvalReq
       /\ Commit([Cur EXCEPT !.inflight = @ \ {r}, !.approvalData = r.id])
  /\ effectsPending' = TRUE
  /\ last' = "approvalWriteReturns" /\ UNCHANGED read
  /\ UNCHANGED <<propVars, prev, runCfg, afterReset, cfgChanged>>

\* The request the approval handle is attached to fails: the onError passed
\* to writeApproval runs, then the handle's error is rendered.
ApprovalWriteFails ==
  /\ ~effectsPending
  /\ \E r \in inflight :
       /\ r.kind = "approval" /\ r.id = approvalReq
       /\ Commit(Call([Cur EXCEPT !.inflight = @ \ {r},
                                  !.approvalWriteError = WriteError(r.id),
                                  !.approvalError = WriteError(r.id),
                                  !.isApproving = FALSE,
                                  !.failures = @ \cup {"apWrite"}],
                      "onApprovalError", r.id))
  /\ effectsPending' = TRUE
  /\ last' = "approvalWriteFails" /\ UNCHANGED read
  /\ UNCHANGED <<propVars, prev, runCfg, afterReset, cfgChanged>>

TransactionWriteReturns ==
  /\ ~effectsPending
  /\ \E r \in inflight :
       /\ r.kind = "transaction" /\ r.id = transactionReq
       /\ Commit([Cur EXCEPT !.inflight = @ \ {r}, !.transactionData = r.id])
  /\ effectsPending' = TRUE
  /\ last' = "transactionWriteReturns" /\ UNCHANGED read
  /\ UNCHANGED <<propVars, prev, runCfg, afterReset, cfgChanged>>

TransactionWriteFails ==
  /\ ~effectsPending
  /\ \E r \in inflight :
       /\ r.kind = "transaction" /\ r.id = transactionReq
       /\ Commit(Call([Cur EXCEPT !.inflight = @ \ {r},
                                  !.transactionWriteError = WriteError(r.id),
                                  !.transactionError = WriteError(r.id),
                                  !.isTransacting = FALSE,
                                  !.failures = @ \cup {"txWrite"}],
                      "onTransactionError", r.id))
  /\ effectsPending' = TRUE
  /\ last' = "transactionWriteFails" /\ UNCHANGED read
  /\ UNCHANGED <<propVars, prev, runCfg, afterReset, cfgChanged>>

\* A request whose handle was reset settles at the wallet; the hook is not told.
DetachedWriteSettles ==
  /\ ~effectsPending
  /\ \E r \in inflight :
       /\ r.id # approvalReq /\ r.id # transactionReq
       /\ Commit([Cur EXCEPT !.inflight = @ \ {r}])
  /\ last' = "detachedWriteSettles" /\ UNCHANGED read
  /\ UNCHANGED <<propVars, prev, effectsPending, runCfg, afterReset, cfgChanged>>

\* The receipt query of the rendered approvalHash reports success.
ApprovalConfirmed ==
  /\ ~effectsPending
  /\ approvalHash # 0 /\ receipt[approvalHash] = "pending"
  /\ receipt' = [receipt EXCEPT ![approvalHash] = "success"]
  /\ trace' = << >> /\ calls' = calls
  /\ effectsPending' = TRUE
  /\ last' = "approvalConfirmed" /\ UNCHANGED read
  /\ UNCHANGED <<hookVars, inflight, nextId, propVars, prev, runCfg, runApId,
                 runTxId, failures, afterReset, cfgChanged>>

\* The receipt query of the rendered approvalHash reports an error.
ApprovalConfirmFails ==
  /\ ~effectsPending
  /\ approvalHash # 0 /\ receipt[approvalHash] = "pending"
  /\ receipt' = [receipt EXCEPT ![approvalHash] = "error"]
  /\ failures' = failures \cup {"apConfirm"}
  /\ trace' = << >> /\ calls' = calls
  /\ effectsPending' = TRUE
  /\ last' = "approvalConfirmFails" /\ UNCHANGED read
  /\ UNCHANGED <<hookVars, inflight, nextId, propVars, prev, runCfg, runApId,
                 runTxId, afterReset, cfgChanged>>

TransactionConfirmed ==
  /\ ~effectsPending
  /\ transactionHash # 0 /\ receipt[transactionHash] = "pending"
  /\ receipt' = [receipt EXCEPT ![transactionHash] = "success"]
  /\ trace' = << >> /\ calls' = calls
  /\ effectsPending' = TRUE
  /\ last' = "transactionConfirmed" /\ UNCHANGED read
  /\ UNCHANGED <<hookVars, inflight, nextId, propVars, prev, runCfg, runApId,
                 runTxId, failures, afterReset, cfgChanged>>

TransactionConfirmFails ==
  /\ ~effectsPending
  /\ transactionHash # 0 /\ receipt[transactionHash] = "pending"
  /\ receipt' = [receipt EXCEPT ![transactionHash] = "error"]
  /\ failures' = failures \cup {"txConfirm"}
  /\ trace' = << >> /\ calls' = calls
  /\ effectsPending' = TRUE
  /\ last' = "transactionConfirmFails" /\ UNCHANGED read
  /\ UNCHANGED <<hookVars, inflight, nextId, propVars, prev, runCfg, runApId,
                 runTxId, afterReset, cfgChanged>>

\* The receipt query of a hash the hook no longer renders settles unobserved.
UnobservedReceiptSettles ==
  /\ ~effectsPending
  /\ \E h \in Ids, outcome \in {"success", "error"} :
       /\ h # approvalHash /\ h # transactionHash /\ receipt[h] = "pending"
       /\ receipt' = [receipt EXCEPT ![h] = outcome]
  /\ trace' = << >> /\ calls' = calls
  /\ last' = "unobservedReceiptSettles" /\ UNCHANGED read
  /\ UNCHANGED <<hookVars, inflight, nextId, propVars, prev, effectsPending, runCfg,
                 runApId, runTxId, failures, afterReset, cfgChanged>>

\* The caller renders again with another approvalConfig or with callbacks of
\* a new identity (inline arrow functions).
Rerender ==
  /\ ~effectsPending
  /\ \E cfg \in Configs, cb \in {0, 1} :
       /\ <<cfg, cb>> # <<approvalConfig, cbId>>
       /\ approvalConfig' = cfg
       /\ cbId' = cb
       /\ cfgChanged' = (cfgChanged \/ cfg.provided # approvalConfig.provided)
  /\ trace' = << >> /\ calls' = calls
  /\ effectsPending' = TRUE
  /\ last' = "rerender" /\ UNCHANGED read
  /\ UNCHANGED <<hookVars, envVars, prev, runCfg, runApId, runTxId, failures,
                 afterReset>>

\* The passive effects of the committed render run; a state update or a new
\* write request commits another render.
FlushEffects ==
  /\ effectsPending
  /\ LET st == RunEffects(Cur)
     IN /\ Commit(st)
        /\ effectsPending' = (Rendered(st) # Rendered(Cur))
  /\ prev' = Deps
  /\ last' = "flushEffects" /\ UNCHANGED read
  /\ UNCHANGED <<propVars, runCfg, afterReset, cfgChanged>>

Next ==
  \/ Execute
  \/ Reset
  \/ ApprovalWriteReturns
  \/ ApprovalWriteFails
  \/ TransactionWriteReturns
  \/ TransactionWriteFails
  \/ DetachedWriteSettles
  \/ ApprovalConfirmed
  \/ ApprovalConfirmFails
  \/ TransactionConfirmed
  \/ TransactionConfirmFails
  \/ UnobservedReceiptSettles
  \/ Rerender
  \/ FlushEffects

Spec == Init /\ [][Next]_vars

TypeOK ==
  /\ approvalHash \in 0..MaxWrites /\ transactionHash \in 0..MaxWrites
  /\ isApproving \in BOOLEAN /\ isTransacting \in BOOLEAN
  /\ nextId \in 1..(MaxWrites + 1)
  /\ \A r \in inflight : r.id < nextId
  /\ approvalConfig \in Configs

----------------------------------------------------------------------------
\* Events of the last step.

Happened(name) == \E i \in 1..Len(trace) : trace[i].ev = name

WriteSubmitted == Happened("writeApproval") \/ Happened("writeTransaction")

CallbackFired ==
  \E i \in 1..Len(trace) : trace[i].ev \notin {"writeApproval", "writeTransaction"}

ApprovalFailed == failures \cap {"apPrepare", "apWrite", "apConfirm"} # {}

Outstanding(id) == \E r \in inflight : r.id = id

AllCleared ==
  /\ approvalHash = 0 /\ transactionHash = 0
  /\ approvalError = NoError /\ transactionError = NoError

HandlesReset ==
  /\ approvalData = 0 /\ approvalWriteError = NoError
  /\ transactionData = 0 /\ transactionWriteError = NoError

\* C1: in a run that execute() started with approvalConfig, a step submits the
\* main transaction write only when the approval write of that run has
\* returned its hash and the receipt of that hash is a success.
C1_TransactionAfterConfirmedApproval ==
  (Happened("writeTransaction") /\ runCfg = "with") =>
     /\ runApId # 0 /\ ~Outstanding(runApId)
     /\ approvalData = runApId /\ approvalHash = runApId
     /\ receipt[runApId] = "success"

C1_Witness ==
  /\ Happened("writeTransaction") /\ runCfg = "with"
  /\ calls["writeApproval"] = 1

\* C2: once the approval of the run has failed (preparation threw, the write
\* returned an error or the confirmation failed), no step submits the main
\* transaction write until execute() starts another run.
C2_NoTransactionAfterApprovalFailure ==
  ApprovalFailed => /\ ~Happened("writeTransaction")
                    /\ calls["writeTransaction"] = 0
                    /\ runTxId = 0

C2_Witness ==
  /\ "apConfirm" \in failures /\ last = "flushEffects" /\ ~effectsPending
  /\ approvalError # NoError

\* C3: in a run that execute() started without approvalConfig no approval
\* write is submitted, approvalHash stays null and isApproving stays false.
C3_NoApprovalWithoutConfig ==
  runCfg = "none" =>
     /\ calls["writeApproval"] = 0 /\ ~Happened("writeApproval")
     /\ runApId = 0 /\ approvalReq = 0
     /\ approvalHash = 0 /\ ~isApproving
     /\ (last = "execute" => trace = <<Ev("writeTransaction", runTxId)>>)

C3_Witness == runCfg = "none" /\ isTransactionSuccess /\ ~effectsPending

\* C4 as stated: right after execute() the hashes and errors are null, both
\* write handles are reset and exactly the first step of the flow is started.
C4_Original ==
  last = "execute" =>
     /\ AllCleared /\ HandlesReset
     /\ IF approvalConfig.provided
        THEN isApproving /\ ~isTransacting
        ELSE isTransacting /\ ~isApproving

\* C4 amended: right after execute() the hashes are null, transactionError is
\* null, both write handles are reset and exactly the first step is started,
\* except that when approvalConfig is provided and its string amount cannot be
\* converted no step is started: approvalError is the thrown error, both
\* flags are false and no write is submitted.
C4_ExecuteResetsThenStarts ==
  last = "execute" =>
     /\ approvalHash = 0 /\ transactionHash = 0 /\ transactionError = NoError
     /\ HandlesReset
     /\ IF ~approvalConfig.provided
        THEN /\ isTransacting /\ ~isApproving /\ approvalError = NoError
             /\ trace = <<Ev("writeTransaction", transactionReq)>>
             /\ approvalReq = 0 /\ Outstanding(transactionReq)
        ELSE IF PrepareThrows(approvalConfig)
        THEN /\ ~isApproving /\ ~isTransacting /\ approvalError = PrepareError
             /\ trace = <<Ev("onApprovalError", 0)>>
             /\ approvalReq = 0 /\ transactionReq = 0
        ELSE /\ isApproving /\ ~isTransacting /\ approvalError = NoError
             /\ trace = <<Ev("writeApproval", approvalReq)>>
             /\ transactionReq = 0 /\ Outstanding(approvalReq)

C4_Witness ==
  /\ last = "execute" /\ isApproving /\ nextId = 3
  /\ receipt[1] = "error"

\* C5: from reset() until the next execute() the hashes and errors are null,
\* isApproving, isTransacting, isLoading and isComplete are false, and no
\* step submits a write or fires a callback.
C5_ResetClearsAll ==
  afterReset =>
     /\ AllCleared
     /\ ~isApproving /\ ~isTransacting /\ ~isLoading /\ ~isComplete
     /\ ~WriteSubmitted /\ ~CallbackFired

C5_Witness == afterReset /\ last = "detachedWriteSettles" /\ nextId > 2

C6_WitnessTransaction ==
  /\ "txConfirm" \in failures /\ ~effectsPending /\ ~afterReset /\ runCfg = "with"

\* C7 as stated: approvalError is non-null only after the approval write or
\* its preparation failed, transactionError only after the transaction write
\* failed, and a failed confirmation shows in the matching confirm error.
C7_Original ==
  /\ approvalError # NoError => failures \cap {"apWrite", "apPrepare"} # {}
  /\ transactionError # NoError => "txWrite" \in failures
  /\ ("apConfirm" \in failures /\ ~afterReset) => approvalConfirmError # NoError
  /\ ("txConfirm" \in failures /\ ~afterReset) => transactionConfirmError # NoError

\* C8: isComplete is true exactly when the main transaction of the current
\* run is confirmed and, with approvalConfig, the approval of the current run
\* is confirmed too; then the hook is not idle, not reset, no step of the run
\* has failed and none is outstanding.
FlowComplete ==
  /\ runTxId # 0 /\ receipt[runTxId] = "success"
  /\ approvalConfig.provided => (runApId # 0 /\ receipt[runApId] = "success")

C8_WitnessNoApproval == isComplete /\ runCfg = "none" /\ ~approvalConfig.provided

\* C10: onApprovalSuccess is called with the hash of the run's approval, when
\* its receipt is a success, and right before the main transaction write is
\* submitted; onTransactionSuccess is called with the hash of the run's main
\* transaction, when its receipt is a success, and is followed by
\* onFinalSuccess; onFinalSuccess is called only then, and in a run with
\* approval only when the approval is confirmed too.  In a settled render
\* whose run has a confirmed hash the matching callback has been called.
C10_SuccessCallbacksInOrder ==
  /\ \A i \in 1..Len(trace) :
        /\ trace[i].ev = "onApprovalSuccess" =>
              /\ trace[i].arg = runApId /\ trace[i].arg = approvalHash
              /\ receipt[runApId] = "success"
              /\ i < Len(trace) /\ trace[i + 1] = Ev("writeTransaction", runTxId)
              /\ \A j \in 1..(i - 1) : trace[j].ev # "writeTransaction"
              /\ calls["onTransactionSuccess"] = 0 /\ calls["onFinalSuccess"] = 0
        /\ trace[i].ev = "onTransactionSuccess" =>
              /\ trace[i].arg = runTxId /\ trace[i].arg = transactionHash
              /\ receipt[runTxId] = "success"
              /\ i < Len(trace) /\ trace[i + 1].ev = "onFinalSuccess"
        /\ trace[i].ev = "onFinalSuccess" =>
              /\ i > 1 /\ trace[i - 1].ev = "onTransactionSuccess"
              /\ receipt[runTxId] = "success"
              /\ runCfg = "with" =>
                    (receipt[runApId] = "success" /\ calls["onApprovalSuccess"] > 0)
  /\ (~effectsPending /\ ~afterReset) =>
        /\ (runApId # 0 /\ receipt[runApId] = "success") =>
              calls["onApprovalSuccess"] > 0
        /\ (runTxId # 0 /\ receipt[runTxId] = "success") =>
              (calls["onTransactionSuccess"] > 0 /\ calls["onFinalSuccess"] > 0)

C10_Witness ==
  /\ Happened("onFinalSuccess") /\ runCfg = "with"
  /\ calls["onApprovalSuccess"] = 1

----------------------------------------------------------------------------
\* Every submitted write the hook is attached to eventually returns a hash or
\* an error, every receipt query the hook renders eventually succeeds or
\* fails, and pending effects run.  The settling steps are disabled while
\* effects are pending, hence strong fairness.
LiveSpec ==
  /\ Spec
  /\ WF_vars(FlushEffects)
  /\ SF_vars(ApprovalWriteReturns \/ ApprovalWriteFails)
  /\ SF_vars(TransactionWriteReturns \/ TransactionWriteFails)
  /\ SF_vars(ApprovalConfirmed \/ ApprovalConfirmFails)
  /\ SF_vars(TransactionConfirmed \/ TransactionConfirmFails)

Terminated ==
  /\ ~isLoading
  /\ isComplete \/ approvalError # NoError \/ transactionError # NoError

\* C9 as stated: unless reset() is called (a later execute() takes over the
\* obligation), every execute() is eventually followed by a state in which
\* isLoading is false and isComplete is true or an error field is non-null.
C9_Original == (last = "execute") ~> (Terminated \/ afterReset)

\* C9 amended: the same, provided the caller does not switch approvalConfig
\* between provided and absent during the run.
C9_RunTerminates == (last = "execute") ~> (Terminated \/ afterReset \/ cfgChanged)

C9_Witness ==
  /\ Terminated /\ isComplete /\ runCfg = "with"
  /\ ~afterReset /\ ~cfgChanged /\ ~effectsPending

----------------------------------------------------------------------------
\* Events of the step being taken.

HappenedNext(name) == \E i \in 1..Len(trace') : trace'[i].ev = name

OnlyCalled(name) == \A i \in 1..Len(trace') : trace'[i].ev = name

ApprovalFailureStep ==
  \/ last' \in {"approvalWriteFails", "approvalConfirmFails"}
  \/ last' = "flushEffects" /\ HappenedNext("onApprovalError")

TransactionFailureStep ==
  \/ last' \in {"transactionWriteFails", "transactionConfirmFails"}
  \/ last' = "flushEffects" /\ HappenedNext("onTransactionError")

\* C11: a step that reports an approval failure (the write's onError, the
\* failing receipt, the error effects that follow) calls no callback but
\* onApprovalError, submits nothing, and leaves transactionError,
\* transactionHash and isTransacting as they were; a step that reports a
\* transaction failure calls no callback but onTransactionError and leaves
\* approvalError and approvalHash as they were.  When the preparation throws
\* inside execute(), only onApprovalError is called and transactionError,
\* transactionHash and isTransacting are as execute() reset them.
C11_ErrorsRoutedPerStep ==
  [][ /\ ApprovalFailureStep =>
           /\ OnlyCalled("onApprovalError")
           /\ transactionError' = transactionError
           /\ transactionHash' = transactionHash
           /\ isTransacting' = isTransacting
           /\ (last' # "approvalConfirmFails") =>
                 (approvalError' # NoError /\ HappenedNext("onApprovalError"))
      /\ TransactionFailureStep =>
           /\ OnlyCalled("onTransactionError")
           /\ approvalError' = approvalError
           /\ approvalHash' = approvalHash
           /\ (last' # "transactionConfirmFails") =>
                 (transactionError' # NoError /\ HappenedNext("onTransactionError"))
      /\ (last' = "execute" /\ PrepareThrows(approvalConfig)) =>
           /\ trace' = <<Ev("onApprovalError", 0)>>
           /\ transactionError' = NoError /\ transactionHash' = 0 /\ ~isTransacting'
    ]_vars

C11_Witness ==
  /\ last = "flushEffects" /\ Happened("onApprovalError")
  /\ "apConfirm" \in failures /\ approvalError = ConfirmError(approvalHash)
  /\ transactionError = NoError

----------------------------------------------------------------------------
\* The run started by the last execute() is in progress: it was not reset, no
\* step of it has failed and its main transaction is not confirmed yet.
RunInProgress ==
  /\ runCfg # "norun" /\ ~afterReset /\ failures = {}
  /\ ~(runTxId # 0 /\ receipt[runTxId] = "success")

\* C12: isLoading is true in every state of a run in progress, from the render
\* committed by execute() on: also between a write returning its hash and the
\* receipt query starting, and between the approval receipt succeeding and
\* the main transaction being submitted.
C12_LoadingWhileInProgress == RunInProgress => isLoading

C12_Witness ==
  /\ RunInProgress /\ last = "approvalConfirmed"
  /\ isApprovalSuccess /\ runTxId = 0 /\ ~isApprovingConfirming

C12_WitnessHashNotRendered ==
  /\ RunInProgress /\ last = "transactionWriteReturns"
  /\ transactionData # 0 /\ transactionHash = 0

----------------------------------------------------------------------------
\* The requests of the current run (none after reset()).
OfCurrentRun(id) == id # 0 /\ id \in {runApId, runTxId}

\* C13: whatever the hook renders or calls belongs to the run started by the
\* last execute(): a result of a request or of a receipt query of an earlier
\* run, arriving after execute() or reset(), is in no hash, in no error field
\* and in no callback, and starts no write.
C13_LateResultsIgnored ==
  /\ approvalHash # 0 => approvalHash = runApId
  /\ transactionHash # 0 => transactionHash = runTxId
  /\ approvalData # 0 => approvalData = runApId
  /\ transactionData # 0 => transactionData = runTxId
  /\ approvalError \notin {NoError, PrepareError} => approvalError.id = runApId
  /\ transactionError # NoError => transactionError.id = runTxId
  /\ \A i \in 1..Len(trace) :
        \/ OfCurrentRun(trace[i].arg)
        \/ trace[i] = Ev("onApprovalError", 0) /\ last = "execute"
        \/ /\ trace[i] = Ev("onFinalSuccess", 0)
           /\ i > 1 /\ trace[i - 1] = Ev("onTransactionSuccess", runTxId)
  /\ last \in {"detachedWriteSettles", "unobservedReceiptSettles"} =>
        (trace = << >> /\ ~effectsPending)

C13_Witness ==
  /\ last = "detachedWriteSettles" /\ ~afterReset
  /\ runApId # 0 /\ Outstanding(runApId) /\ isApproving

C13_WitnessReceipt ==
  /\ last = "unobservedReceiptSettles" /\ ~afterReset /\ runTxId # 0

----------------------------------------------------------------------------
\* The read hook is first rendered, with parameters p, while useReadContract
\* returns res.
ReadRender ==
  /\ ~read.rendered
  /\ \E p \in ReadParams, res \in ReadResults :
       read' = [rendered |-> TRUE, params |-> p, request |-> ReadRequest(p),
                result |-> res, returned |-> ReadReturn(res)]
  /\ UNCHANGED <<hookVars, envVars, propVars, prev, effectsPending, ghostVars>>

\* useReadContract reports a new result and the read hook renders again with
\* the same parameters.
ReadResultChanges ==
  /\ read.rendered
  /\ \E res \in ReadResults :
       /\ res # read.result
       /\ read' = [read EXCEPT !.request = ReadRequest(read.params),
                               !.result = res, !.returned = ReadReturn(res)]
  /\ UNCHANGED <<hookVars, envVars, propVars, prev, effectsPending, ghostVars>>

ReadNext == ReadRender \/ ReadResultChanges

ReadSpec == Init /\ [][ReadNext]_vars

\* C14: the request handed to useReadContract has the supplied value of every
\* supplied parameter and, for an omitted one, args = [], the default
\* contract address and ABI, enabled = true (under query) and watch = false;
\* functionName and chainId are passed as they are; the seven returned fields
\* are those of useReadContract's result.
C14_ReadForwardsWithDefaults ==
  read.rendered =>
     LET p == read.params
         q == read.request
         res == read.result
         ret == read.returned
     IN /\ q.functionName = p.functionName
        /\ q.chainId = p.chainId
        /\ q.args = (IF p.args.given THEN p.args.v ELSE << >>)
        /\ q.address = (IF p.address.given THEN p.address.v
                        ELSE DEFAULT_CONTRACT_ADDRESS)
        /\ q.abi = (IF p.abi.given THEN p.abi.v ELSE DEFAULT_CONTRACT_ABI)
        /\ q.query.enabled = (IF p.enabled.given THEN p.enabled.v ELSE TRUE)
        /\ q.watch = (IF p.watch.given THEN p.watch.v ELSE FALSE)
        /\ DOMAIN ret = {"data", "isLoading", "isError", "error", "isSuccess",
                         "isFetching", "refetch"}
        /\ \A f \in DOMAIN ret : ret[f] = res[f]

C14_Witness ==
  /\ read.rendered
  /\ ~read.params.args.given /\ ~read.params.watch.given
  /\ read.params.enabled = Given(FALSE) /\ read.params.address.given
  /\ read.result.isSuccess

----------------------------------------------------------------------------
StepFlags == <<isApproving, isApprovingConfirming, isTransacting, isTransactionConfirming>>

\* C15 as stated: in every state at most one of isApproving,
\* isApprovingConfirming, isTransacting and isTransactionConfirming is true.
C15_Original == Cardinality({i \in 1..4 : StepFlags[i]}) <= 1

----------------------------------------------------------------------------
ApprovalFailures == failures \cap {"apPrepare", "apWrite", "apConfirm"}

TransactionFailures == failures \cap {"txWrite", "txConfirm"}

\* C16 as stated: in a run onApprovalError is called once per approval failure
\* and onTransactionError once per transaction failure: never more often,
\* and exactly as often once the effects of the failure have run.
C16_Original ==
  /\ calls["onApprovalError"] <= Cardinality(ApprovalFailures)
  /\ calls["onTransactionError"] <= Cardinality(TransactionFailures)
  /\ ~effectsPending =>
        /\ calls["onApprovalError"] = Cardinality(ApprovalFailures)
        /\ calls["onTransactionError"] = Cardinality(TransactionFailures)

----------------------------------------------------------------------------
\* C17: in one run the main transaction write is submitted at most once, and
\* exactly once when the run's approval is confirmed and its effects have
\* run: not again when the transaction write fails, when its hash arrives or
\* when the hook renders again.
C17_TransactionSubmittedOnce ==
  /\ calls["writeTransaction"] <= 1
  /\ (runApId # 0 /\ receipt[runApId] = "success" /\ ~effectsPending /\ ~afterReset) =>
        (calls["writeTransaction"] = 1 /\ runTxId # 0)

C17_Witness ==
  /\ runCfg = "with" /\ "txWrite" \in failures /\ calls["writeTransaction"] = 1
  /\ isApprovalSuccess /\ ~isTransacting /\ transactionHash = 0
  /\ last = "flushEffects" /\ cbId = 1 /\ ~effectsPending

----------------------------------------------------------------------------
\* C18 as stated: at no time are two submitted write requests unresolved.
C18_Original == Cardinality(inflight) <= 1

\* C19: unless the last run was started without approvalConfig (so whenever
\* approvalConfig was provided all along), a non-null transactionHash comes
\* with a non-null approvalHash whose receipt is a success.
C19_TransactionHashImpliesApproval ==
  (runCfg # "none" /\ transactionHash # 0) =>
     (approvalHash # 0 /\ isApprovalSuccess)

C19_Witness ==
  /\ runCfg = "with" /\ transactionHash # 0 /\ approvalConfig.provided
  /\ ~cfgChanged /\ isTransactionConfirming

\* C20: isApproving and isTransacting are never both true; the step that
\* hands over from the approval to the transaction leaves isApproving false
\* and isTransacting true, reset() leaves both false and execute() at most
\* the one of the step it starts.
C20_NotApprovingAndTransacting ==
  /\ ~(isApproving /\ isTransacting)
  /\ (last = "flushEffects" /\ Happened("writeTransaction")) =>
        (isTransacting /\ ~isApproving)
  /\ last = "reset" => (~isApproving /\ ~isTransacting)
  /\ last = "execute" => (isApproving => approvalConfig.provided)

C20_Witness ==
  /\ last = "flushEffects" /\ Happened("writeTransaction")
  /\ isTransacting /\ ~isApproving /\ runCfg = "with"

----------------------------------------------------------------------------
\* C21.  When preparing the approval throws (a string amount that is not a
\* decimal numeral, whatever decimals are given or defaulted), execute()
\* leaves approvalError set to the thrown error, isApproving false and
\* onApprovalError called once with that error, and submits nothing; for the
\* rest of that run neither the approval write nor the main transaction is
\* submitted, and the error stays until reset().

PrepareFailed == "apPrepare" \in failures

C21_PrepareFailureStopsRun ==
  /\ (last = "execute" /\ PrepareThrows(approvalConfig)) =>
        /\ PrepareFailed
        /\ trace = <<Ev("onApprovalError", PrepareError.id)>>
        /\ approvalError = PrepareError
  /\ PrepareFailed =>
        /\ failures = {"apPrepare"}
        /\ runCfg = "with"
        /\ ~isApproving /\ ~isTransacting
        /\ calls["writeApproval"] = 0 /\ calls["writeTransaction"] = 0
        /\ runApId = 0 /\ runTxId = 0
        /\ approvalReq = 0 /\ transactionReq = 0
        /\ approvalHash = 0 /\ transactionHash = 0
        /\ calls["onApprovalError"] = 1
        /\ calls["onTransactionError"] = 0
        /\ calls["onApprovalSuccess"] = 0
        /\ calls["onTransactionSuccess"] = 0
        /\ transactionError = NoError
        /\ (~afterReset => approvalError = PrepareError)
        /\ ~isComplete

\* The run failed in preparation with the default decimals, after an earlier
\* run had submitted writes; the render has settled and the configuration has
\* since been replaced by one that converts.
C21_Witness ==
  /\ PrepareFailed
  /\ nextId > 1
  /\ last = "flushEffects" /\ ~effectsPending
  /\ approvalError = PrepareError
  /\ ~PrepareThrows(approvalConfig) /\ approvalConfig.provided

\* execute() has just failed in preparation with decimals given.
C21_WitnessDecimalsGiven ==
  /\ last = "execute"
  /\ approvalConfig = BadStringDecimalsConfig
  /\ approvalError = PrepareError
====
